---- MODULE Spec2Model ----
(***************************************************************************)
(* Concurrency primitives of atmoic_and_locks: the reference counted Arc   *)
(* (arc/src/first.rs), the SpinLock (spin_lock/src/main.rs) and the        *)
(* one-shot channels (channel/src/main.rs).                                *)
(*                                                                         *)
(* Every atomic operation of the source is one step.  Accesses to plain    *)
(* memory (the payload, the channel's message cell, the value behind the   *)
(* lock) are steps of their own, so that an access outside the protection  *)
(* of the atomics shows as an interleaving.  The atomics are interleaved   *)
(* sequentially consistently.                                              *)
(***************************************************************************)
EXTENDS Integers, FiniteSets, Sequences, TLC

VARIABLES
    \* ---- arc/src/first.rs
    ref_count,      \* ArcData::ref_count
    allocated,      \* the ArcData block is allocated (Box::leak .. Box::from_raw)
    num_drops,      \* how many times the payload was finalized (NUM_DROPS of the test)
    handles,        \* handles[t]: the Arc handles thread t owns
    apc,            \* apc[t]: where thread t is inside an Arc operation
    aold,           \* aold[t]: the value fetch_add / fetch_sub returned to t
    gm_last,        \* the last get_mut: <<what it returned, the handles that existed then>>
    aborted,        \* std::process::abort() was called
    uaf,            \* a handle accessed the block after it was freed
    leaked,         \* a handle was leaked without its decrement
    \* ---- spin_lock/src/main.rs
    locked,         \* SpinLock::locked
    value,          \* SpinLock::value, a counter
    spc,            \* spc[t]: where thread t is in its lock / increment / unlock rounds
    tmp,            \* tmp[t]: the counter as t read it through its guard
    rounds,         \* rounds[t]: the rounds t has completed
    acq_after_panic, \* a lock() succeeded after some thread panicked under its guard
    \* ---- channel/src/main.rs
    ch              \* the one-shot channel, its capabilities and its threads (ChanInit)

arcVars == <<ref_count, allocated, num_drops, handles, apc, aold, gm_last, aborted, uaf, leaked>>

spinVars == <<locked, value, spc, tmp, rounds, acq_after_panic>>

chanVars == <<ch>>

vars == <<arcVars, spinVars, chanVars>>

\* What an operation of one component leaves alone: the other components.
arcOthers == <<spinVars, chanVars>>
spinOthers == <<arcVars, chanVars>>
chanOthers == <<arcVars, spinVars>>

(***************************************************************************)
(* Arc                                                                     *)
(***************************************************************************)
NArcThreads == 2
UsizeBits == 3

ArcThreads == 1..NArcThreads
UsizeMax == 2^UsizeBits - 1

RECURSIVE SumOver(_, _)
SumOver(f, S) == IF S = {} THEN 0
                 ELSE LET x == CHOOSE y \in S : TRUE IN f[x] + SumOver(f, S \ {x})

\* The handles that exist: every thread's, the one behind a mutable view included.
LiveHandles == SumOver(handles, ArcThreads)

\* What a load of ref_count through a handle yields: the counter, or anything
\* at all once the block was freed.
RefCountSeen == IF allocated THEN {ref_count} ELSE 0..UsizeMax

\* Arc::new: one block, counter 1, one handle, owned by thread 1.
ArcInit ==
    /\ ref_count = 1
    /\ allocated = TRUE
    /\ num_drops = 0
    /\ handles = [t \in ArcThreads |-> IF t = 1 THEN 1 ELSE 0]
    /\ apc = [t \in ArcThreads |-> "idle"]
    /\ aold = [t \in ArcThreads |-> 0]
    /\ gm_last = <<"-", 0>>
    /\ aborted = FALSE
    /\ uaf = FALSE
    /\ leaked = FALSE

\* The other components, not yet constructed.
SpinIdle ==
    /\ locked = FALSE
    /\ value = 0
    /\ spc = <<>>
    /\ tmp = <<>>
    /\ rounds = <<>>
    /\ acq_after_panic = FALSE

ChanIdle == ch = <<>>

ArcRunning(t) == ~aborted /\ apc[t] = "idle" /\ handles[t] >= 1

\* clone, line 71: ref_count.fetch_add(1, Relaxed)
CloneFetchAdd(t) ==
    /\ ArcRunning(t)
    /\ \E seen \in RefCountSeen :
         /\ aold' = [aold EXCEPT ![t] = seen]
         /\ ref_count' = (seen + 1) % (UsizeMax + 1)
    /\ apc' = [apc EXCEPT ![t] = "clone"]
    /\ uaf' = (uaf \/ ~allocated)
    /\ UNCHANGED <<allocated, num_drops, handles, gm_last, aborted>>
    /\ UNCHANGED <<leaked, arcOthers>>

\* a clone without the overflow check
CloneNeverAborts(old) == FALSE

\* clone, lines 71-75: abort above usize::MAX / 2, else the new handle
CloneOverflow(old) == old > UsizeMax \div 2

CloneReturn(t) ==
    /\ ~aborted
    /\ apc[t] = "clone"
    /\ IF CloneOverflow(aold[t])
         THEN aborted' = TRUE /\ UNCHANGED handles
         ELSE handles' = [handles EXCEPT ![t] = @ + 1] /\ UNCHANGED aborted
    /\ apc' = [apc EXCEPT ![t] = "idle"]
    /\ aold' = [aold EXCEPT ![t] = 0]
    /\ UNCHANGED <<ref_count, allocated, num_drops, gm_last, uaf>>
    /\ UNCHANGED <<leaked, arcOthers>>

\* drop, line 81: ref_count.fetch_sub(1, Release); the handle is gone
DropFetchSub(t) ==
    /\ ArcRunning(t)
    /\ \E seen \in RefCountSeen :
         /\ aold' = [aold EXCEPT ![t] = seen]
         /\ ref_count' = (seen - 1) % (UsizeMax + 1)
    /\ handles' = [handles EXCEPT ![t] = @ - 1]
    /\ apc' = [apc EXCEPT ![t] = "drop"]
    /\ uaf' = (uaf \/ ~allocated)
    /\ UNCHANGED <<allocated, num_drops, gm_last, aborted>>
    /\ UNCHANGED <<leaked, arcOthers>>

\* a drop that tests the counter after the decrement instead of the value returned
DropIsLastNewValue(old) == old = 0

\* a drop that frees one decrement too early
DropIsLastEarly(old) == old <= 2

\* drop, line 81: the decrement that took the counter from 1 to 0 frees
DropIsLast(old) == old = 1

\* drop, lines 81-86: fence and drop(Box::from_raw(..)) for the last handle
DropFinish(t) ==
    /\ ~aborted
    /\ apc[t] = "drop"
    /\ IF DropIsLast(aold[t])
         THEN /\ allocated' = FALSE
              /\ num_drops' = num_drops + 1
              /\ uaf' = (uaf \/ ~allocated)
         ELSE UNCHANGED <<allocated, num_drops, uaf>>
    /\ apc' = [apc EXCEPT ![t] = "idle"]
    /\ aold' = [aold EXCEPT ![t] = 0]
    /\ UNCHANGED <<ref_count, handles, gm_last, aborted>>
    /\ UNCHANGED <<leaked, arcOthers>>

\* a get_mut that gives the view whenever the block is alive
GetMutAnyCount(seen) == seen >= 1

\* get_mut, line 48: the view is given when the counter reads 1
GetMutUnique(seen) == seen = 1

\* get_mut, lines 47-56: Some(&mut data) borrows the handle until released
GetMut(t) ==
    /\ ArcRunning(t)
    /\ \E seen \in RefCountSeen :
         IF GetMutUnique(seen)
           THEN /\ apc' = [apc EXCEPT ![t] = "view"]
                /\ gm_last' = <<"Some", LiveHandles>>
           ELSE /\ gm_last' = <<"None", LiveHandles>>
                /\ UNCHANGED apc
    /\ uaf' = (uaf \/ ~allocated)
    /\ UNCHANGED <<ref_count, allocated, num_drops, handles, aold, aborted>>
    /\ UNCHANGED <<leaked, arcOthers>>

\* the &mut T returned by get_mut goes out of scope
ViewRelease(t) ==
    /\ ~aborted
    /\ apc[t] = "view"
    /\ apc' = [apc EXCEPT ![t] = "idle"]
    /\ UNCHANGED <<ref_count, allocated, num_drops, handles, aold, gm_last, aborted, uaf>>
    /\ UNCHANGED <<leaked, arcOthers>>

\* deref, lines 62-64: a read of the payload through a handle
Deref(t) ==
    /\ ArcRunning(t)
    /\ uaf' = (uaf \/ ~allocated)
    /\ UNCHANGED <<ref_count, allocated, num_drops, handles, apc, aold, gm_last, aborted>>
    /\ UNCHANGED <<leaked, arcOthers>>

\* Arc<T>: Send, line 25: a handle moves to another thread (test, line 111)
SendHandle(t, u) ==
    /\ ArcRunning(t)
    /\ t # u
    /\ handles' = [handles EXCEPT ![t] = @ - 1, ![u] = @ + 1]
    /\ UNCHANGED <<ref_count, allocated, num_drops, apc, aold, gm_last, aborted, uaf>>
    /\ UNCHANGED <<leaked, arcOthers>>

ArcNext ==
    \/ \E t \in ArcThreads : CloneFetchAdd(t)
    \/ \E t \in ArcThreads : CloneReturn(t)
    \/ \E t \in ArcThreads : DropFetchSub(t)
    \/ \E t \in ArcThreads : DropFinish(t)
    \/ \E t \in ArcThreads : GetMut(t)
    \/ \E t \in ArcThreads : ViewRelease(t)
    \/ \E t \in ArcThreads : Deref(t)
    \/ \E t, u \in ArcThreads : SendHandle(t, u)

InitArc == ArcInit /\ SpinIdle /\ ChanIdle

SpecArc == InitArc /\ [][ArcNext]_vars

\* A handle is leaked (std::mem::forget): it is gone and its count stays.
Forget(t) ==
    /\ ArcRunning(t)
    /\ handles' = [handles EXCEPT ![t] = @ - 1]
    /\ leaked' = TRUE
    /\ UNCHANGED <<ref_count, allocated, num_drops, apc, aold, gm_last, aborted, uaf>>
    /\ UNCHANGED arcOthers

\* The Arc with clients that also leak handles: the counter can then grow
\* without the handles growing.
ArcLeakNext ==
    \/ \E t \in ArcThreads : CloneFetchAdd(t)
    \/ \E t \in ArcThreads : CloneReturn(t)
    \/ \E t \in ArcThreads : DropFetchSub(t)
    \/ \E t \in ArcThreads : DropFinish(t)
    \/ \E t, u \in ArcThreads : SendHandle(t, u)
    \/ \E t \in ArcThreads : Forget(t)

InitArcLeak == ArcInit /\ SpinIdle /\ ChanIdle

SpecArcLeak == InitArcLeak /\ [][ArcLeakNext]_vars

(***************************************************************************)
(* SpinLock: every thread runs SpinRounds times                            *)
(*     let mut g = x.lock(); *g += 1; drop(g)                              *)
(* and may panic while it holds the guard.                                 *)
(***************************************************************************)
NSpinThreads == 3
SpinRounds == 2

SpinThreads == 1..NSpinThreads

\* A Guard of thread t exists: from lock()'s return to the end of Guard::drop.
HoldsGuard(t) == spc[t] \in {"read", "write", "drop", "unwind"}
Guards == {t \in SpinThreads : HoldsGuard(t)}

\* SpinLock::new(0), lines 16-21
SpinInit ==
    /\ locked = FALSE
    /\ value = 0
    /\ spc = [t \in SpinThreads |-> "lock"]
    /\ tmp = [t \in SpinThreads |-> 0]
    /\ rounds = [t \in SpinThreads |-> 0]
    /\ acq_after_panic = FALSE

\* a lock that loads the flag instead of swapping it
LockLoadsOnly(old) == old

\* lock, line 26: what swap(true, Acquire) leaves in the flag
LockSwapStores(old) == TRUE

\* a lock whose loop ends after the first swap, whatever it returned
LockNoSpin(old) == TRUE

\* lock, line 26: the loop ends when the swap returned false
LockAcquired(old) == ~old

\* lock, lines 25-30: one iteration of the spin loop
LockSwap(t) ==
    /\ spc[t] = "lock"
    /\ locked' = LockSwapStores(locked)
    /\ IF LockAcquired(locked)
         THEN /\ spc' = [spc EXCEPT ![t] = "read"]
              /\ acq_after_panic' = (acq_after_panic \/ \E u \in SpinThreads : spc[u] = "panicked")
         ELSE UNCHANGED <<spc, acq_after_panic>>
    /\ UNCHANGED <<value, tmp, rounds>>
    /\ UNCHANGED spinOthers

\* Guard::deref, lines 52-56: read the value through the guard
CsRead(t) ==
    /\ spc[t] = "read"
    /\ tmp' = [tmp EXCEPT ![t] = value]
    /\ spc' = [spc EXCEPT ![t] = "write"]
    /\ UNCHANGED <<locked, value, rounds, acq_after_panic>>
    /\ UNCHANGED spinOthers

\* Guard::deref_mut, lines 60-64: write the value through the guard
CsWrite(t) ==
    /\ spc[t] = "write"
    /\ value' = tmp[t] + 1
    /\ tmp' = [tmp EXCEPT ![t] = 0]
    /\ spc' = [spc EXCEPT ![t] = "drop"]
    /\ UNCHANGED <<locked, rounds, acq_after_panic>>
    /\ UNCHANGED spinOthers

\* a Guard::drop that leaves the flag set
GuardDropKeepsFlag == TRUE

\* Guard::drop, line 69: what store(false, Release) leaves in the flag
GuardDropStores == FALSE

\* Guard::drop, lines 67-71, at the end of the guard's scope
GuardDrop(t) ==
    /\ spc[t] = "drop"
    /\ locked' = GuardDropStores
    /\ rounds' = [rounds EXCEPT ![t] = @ + 1]
    /\ spc' = [spc EXCEPT ![t] = IF rounds[t] + 1 >= SpinRounds THEN "done" ELSE "lock"]
    /\ UNCHANGED <<value, tmp, acq_after_panic>>
    /\ UNCHANGED spinOthers

\* the critical section panics: the thread starts to unwind, the guard still alive
CsPanic(t) ==
    /\ spc[t] \in {"read", "write"}
    /\ spc' = [spc EXCEPT ![t] = "unwind"]
    /\ tmp' = [tmp EXCEPT ![t] = 0]
    /\ UNCHANGED <<locked, value, rounds, acq_after_panic>>
    /\ UNCHANGED spinOthers

\* Guard::drop, lines 67-71, run by the unwinding
Unwind(t) ==
    /\ spc[t] = "unwind"
    /\ locked' = GuardDropStores
    /\ spc' = [spc EXCEPT ![t] = "panicked"]
    /\ UNCHANGED <<value, tmp, rounds, acq_after_panic>>
    /\ UNCHANGED spinOthers

SpinNext ==
    \/ \E t \in SpinThreads : LockSwap(t)
    \/ \E t \in SpinThreads : CsRead(t)
    \/ \E t \in SpinThreads : CsWrite(t)
    \/ \E t \in SpinThreads : GuardDrop(t)
    \/ \E t \in SpinThreads : CsPanic(t)
    \/ \E t \in SpinThreads : Unwind(t)

ArcIdle ==
    /\ ref_count = 0
    /\ allocated = FALSE
    /\ num_drops = 0
    /\ handles = <<>>
    /\ apc = <<>>
    /\ aold = <<>>
    /\ gm_last = <<"-", 0>>
    /\ aborted = FALSE
    /\ uaf = FALSE
    /\ leaked = FALSE

InitSpin == SpinInit /\ ArcIdle /\ ChanIdle

SpecSpin == InitSpin /\ [][SpinNext]_vars

\* the steps of thread t
SpinStep(t) ==
    \/ LockSwap(t)
    \/ CsRead(t)
    \/ CsWrite(t)
    \/ GuardDrop(t)
    \/ CsPanic(t)
    \/ Unwind(t)

\* every thread is scheduled again and again
SpecSpinFair ==
    InitSpin /\ [][SpinNext]_vars /\ \A t \in SpinThreads : WF_vars(SpinStep(t))

(***************************************************************************)
(* main, lines 73-85: a SpinLock around a Vec; the scope's first thread    *)
(* pushes 1 under a guard, every other thread pushes its own number twice  *)
(* under a single guard; after the scope main locks and looks at the list. *)
(* Here value is the Vec, tmp[t] what thread t read through its guard and  *)
(* rounds[t] the pushes thread t has made.                                 *)
(***************************************************************************)
\* lines 76 and 77-81: the pushes of one guard
Pushes(t) == IF t = 1 THEN 1 ELSE 2

\* SpinLock::new(Vec::new()), line 74
MainInit ==
    /\ locked = FALSE
    /\ value = <<>>
    /\ spc = [t \in SpinThreads |-> "new"]
    /\ tmp = [t \in SpinThreads |-> <<>>]
    /\ rounds = [t \in SpinThreads |-> 0]
    /\ acq_after_panic = FALSE

\* s.spawn, lines 76 and 77: the scope starts its threads one after another
MainSpawn(t) ==
    /\ spc[t] = "new"
    /\ \A u \in SpinThreads : u < t => spc[u] # "new"
    /\ spc' = [spc EXCEPT ![t] = "lock"]
    /\ UNCHANGED <<locked, value, tmp, rounds, acq_after_panic>>
    /\ UNCHANGED spinOthers

\* Vec::push through Guard::deref_mut, lines 76, 79, 80
MainPush(t) ==
    /\ spc[t] = "write"
    /\ value' = Append(tmp[t], t)
    /\ tmp' = [tmp EXCEPT ![t] = <<>>]
    /\ rounds' = [rounds EXCEPT ![t] = @ + 1]
    /\ spc' = [spc EXCEPT ![t] = IF rounds[t] + 1 < Pushes(t) THEN "read" ELSE "drop"]
    /\ UNCHANGED <<locked, acq_after_panic>>
    /\ UNCHANGED spinOthers

\* Guard::drop, lines 67-71, at the end of the statement or closure
MainGuardDrop(t) ==
    /\ spc[t] = "drop"
    /\ locked' = GuardDropStores
    /\ spc' = [spc EXCEPT ![t] = "done"]
    /\ UNCHANGED <<value, tmp, rounds, acq_after_panic>>
    /\ UNCHANGED spinOthers

\* lines 83-84: the scope has joined its threads; main locks and asserts
MainAssert ==
    /\ \A t \in SpinThreads : spc[t] = "done"
    /\ LockAcquired(locked)
    /\ locked' = LockSwapStores(locked)
    /\ spc' = [t \in SpinThreads |-> "asserted"]
    /\ UNCHANGED <<value, tmp, rounds, acq_after_panic>>
    /\ UNCHANGED spinOthers

\* line 85: main's guard goes out of scope
MainExit ==
    /\ \A t \in SpinThreads : spc[t] = "asserted"
    /\ locked' = GuardDropStores
    /\ spc' = [t \in SpinThreads |-> "exit"]
    /\ UNCHANGED <<value, tmp, rounds, acq_after_panic>>
    /\ UNCHANGED spinOthers

MainNext ==
    \/ \E t \in SpinThreads : MainSpawn(t)
    \/ \E t \in SpinThreads : LockSwap(t)
    \/ \E t \in SpinThreads : CsRead(t)
    \/ \E t \in SpinThreads : MainPush(t)
    \/ \E t \in SpinThreads : MainGuardDrop(t)
    \/ MainAssert
    \/ MainExit

InitMain == MainInit /\ ArcIdle /\ ChanIdle

SpecMain == InitMain /\ [][MainNext]_vars

(***************************************************************************)
(* One-shot channels.  ch.variant is the type under test:                  *)
(*   "panic"   OneShotChannelWithPanic    (lines 41-89)                    *)
(*   "arc"     OneShotChannelWithArc      (lines 92-143)                   *)
(*   "borrow"  OneShotChannelWithBorrows  (lines 145-201)                  *)
(* The fields of ch:                                                       *)
(*   in_use, ready     the atomic flags                                    *)
(*   message           the cell: 0 uninitialized, else the message in it   *)
(*   alive             the channel object has not been dropped             *)
(*   sender, receiver  the thread that owns the Sender / Receiver, 0 none  *)
(*   recv_thread       SenderWithBorrows::receving_thread                  *)
(*   arc_count         the strong count of the Arc around the channel      *)
(*   cpc[t]            where thread t is                                   *)
(*   cmsg[t]           the message t is sending                            *)
(*   token[t]          thread t's park token                               *)
(*   role[t]           "free": calls anything its capabilities allow;      *)
(*                     "producer" / "consumer": the threads of the tests   *)
(*   round             the split() the channel is in (0 before the first)  *)
(*   written[r], sdone[r], taken[r], final[r]                              *)
(*                     in round r: writes of the cell, a send completed,   *)
(*                     messages moved out by receive, messages finalized   *)
(*   ub_recv, ub_drop  receive read / drop finalized an uninitialized cell *)
(*   got[t]            what receive returned to t (0 nothing, -1 garbage)  *)
(*   cdead[t]          the panic that ended t                              *)
(*   isr_last          the last is_ready(): <<result, a send had completed,*)
(*                     a receive had taken the message>>                   *)
(***************************************************************************)
NChanThreads == 3
NMsgs == 2
MaxRounds == 2
MaxSpurious == 1

ChanThreads == 1..NChanThreads
Msgs == 1..NMsgs
Rounds == 0..MaxRounds

\* OneShotChannelWithPanic::new (48-54), OneShotChannelWithArc::channel (98-107),
\* OneShotChannelWithBorrows::new (153-155)
NewChannel(v, roles) ==
    [ variant |-> v,
      in_use |-> FALSE,
      ready |-> FALSE,
      message |-> 0,
      alive |-> TRUE,
      sender |-> IF v = "arc" THEN 1 ELSE 0,
      receiver |-> IF v = "arc" THEN 1 ELSE 0,
      recv_thread |-> 0,
      arc_count |-> IF v = "arc" THEN 2 ELSE 0,
      cpc |-> [t \in ChanThreads |-> "idle"],
      cmsg |-> [t \in ChanThreads |-> 0],
      token |-> [t \in ChanThreads |-> FALSE],
      role |-> roles,
      round |-> IF v = "borrow" THEN 0 ELSE 1,
      written |-> [r \in Rounds |-> 0],
      sdone |-> [r \in Rounds |-> FALSE],
      taken |-> [r \in Rounds |-> 0],
      final |-> [r \in Rounds |-> 0],
      ub_recv |-> FALSE,
      ub_drop |-> FALSE,
      got |-> [t \in ChanThreads |-> 0],
      cdead |-> [t \in ChanThreads |-> "-"],
      isr_last |-> <<FALSE, FALSE, FALSE>> ]

Variants == {"panic", "arc", "borrow"}

\* Any thread may use the OneShotChannelWithPanic through &self; a Sender or a
\* Receiver is used by the thread that owns it.
MaySend(c, t) == IF c.variant = "panic" THEN c.alive ELSE c.sender = t
MayReceive(c, t) == IF c.variant = "panic" THEN c.alive ELSE c.receiver = t

\* Where a thread continues after send or receive returned.
AfterOp(c, t) ==
    CASE c.role[t] = "producer" -> "p_unpark"
      [] c.role[t] = "sender" -> "p_done"
      [] c.role[t] = "consumer" -> "c_done"
      [] OTHER -> "idle"

Quiescent(c) == \A t \in ChanThreads : c.cpc[t] \in {"idle", "dead", "p_done", "c_done"}

\* A receive has taken this round's message: it has swapped ready to false, or
\* read the cell.
Consumed(c) == c.taken[c.round] >= 1 \/ \E t \in ChanThreads : c.cpc[t] = "recv_rd"

\* a Drop that never finalizes the message
DropNeverFinalizes(rdy) == FALSE

\* Drop, lines 83, 139, 197: the message is finalized when ready is set
DropFinalizes(rdy) == rdy

\* Drop for the three channels, lines 81-87, 137-143, 195-201
DropMessage(c) ==
    [c EXCEPT !.final[c.round] = IF DropFinalizes(c.ready) /\ c.message # 0 THEN @ + 1 ELSE @,
              !.ub_drop = @ \/ (DropFinalizes(c.ready) /\ c.message = 0)]

\* a send that does not look at what the swap returned
SendNoCheck(old) == TRUE

\* send, line 57: in_use.swap(true, Relaxed) lets the send go on when it returns false
SendClaims(old) == ~old

\* send: line 57 for the OneShotChannelWithPanic; the Sender is consumed (115, 170)
SendCall(c, t, m) ==
    IF c.variant = "panic"
      THEN IF SendClaims(c.in_use)
             THEN [c EXCEPT !.in_use = TRUE, !.cpc[t] = "send_w", !.cmsg[t] = m]
             ELSE [c EXCEPT !.in_use = TRUE, !.cpc[t] = "dead",
                            !.cdead[t] = IF Consumed(c) THEN "send_late" ELSE "send"]
      ELSE [c EXCEPT !.sender = 0, !.cpc[t] = "send_w", !.cmsg[t] = m]

\* send, lines 60-62, 116, 171: (*message.get()).write(message)
SendWrite(t) ==
    /\ ch.cpc[t] = "send_w"
    /\ ch' = [ch EXCEPT !.message = ch.cmsg[t],
                        !.written[ch.round] = @ + 1,
                        !.cpc[t] = "send_r"]
    /\ UNCHANGED chanOthers

\* send, lines 63, 117, 172: ready.store(true, Release)
SendReady(t) ==
    /\ ch.cpc[t] = "send_r"
    /\ ch' = [ch EXCEPT !.ready = TRUE,
                        !.sdone[ch.round] = TRUE,
                        !.cmsg[t] = IF ch.role[t] \in {"producer", "sender"} THEN @ ELSE 0,
                        !.cpc[t] = CASE ch.variant = "arc" -> "arc_drop"
                                     [] ch.variant = "borrow" -> "send_u"
                                     [] OTHER -> AfterOp(ch, t)]
    /\ UNCHANGED chanOthers

\* an unpark that is lost when the thread has no token yet
UnparkLost(tok) == tok

\* Thread::unpark, lines 173, 223, 240, 257: the token of the thread is set
Unparked(tok) == TRUE

\* SenderWithBorrows::send, line 173: receving_thread.unpark()
SendUnpark(t) ==
    /\ ch.cpc[t] = "send_u"
    /\ ch' = [ch EXCEPT !.token[ch.recv_thread] = Unparked(@),
                        !.cpc[t] = AfterOp(ch, t)]
    /\ UNCHANGED chanOthers

\* the end of SenderWithArc::send / ReceiverWithArc::receive, or of the scope
\* of an unused capability: its Arc is dropped, and with the last one the channel
ArcDrop(t) ==
    /\ ch.cpc[t] \in {"arc_drop", "arc_drop_dead"}
    /\ LET c == [ch EXCEPT !.arc_count = @ - 1,
                           !.cpc[t] = IF ch.cpc[t] = "arc_drop_dead" THEN "dead" ELSE AfterOp(ch, t)]
       IN  ch' = IF c.arc_count = 0 THEN [DropMessage(c) EXCEPT !.alive = FALSE] ELSE c
    /\ UNCHANGED chanOthers

\* an is_ready that loads the wrong flag
IsReadyLoadsInUse(c) == c.in_use

\* is_ready, lines 67, 126, 185: ready.load(..)
IsReadyLoad(c) == c.ready

\* a receive that does not look at what the swap returned
RecvNoCheck(old) == TRUE

\* a receive that panics when the swap returned true
RecvInverted(old) == ~old

\* receive, lines 74, 130, 189: the message is read when the swap returned true
RecvProceeds(old) == old

\* receive, lines 74-76, 130-132, 189-191: ready.swap(false, Acquire); the
\* Receiver is consumed
RecvCall(c, t) ==
    LET d == [c EXCEPT !.ready = FALSE,
                       !.receiver = IF c.variant = "panic" THEN @ ELSE 0]
    IN  IF RecvProceeds(c.ready)
          THEN [d EXCEPT !.cpc[t] = "recv_rd"]
          ELSE CASE c.variant = "panic" -> [d EXCEPT !.cpc[t] = "dead", !.cdead[t] = "recv"]
                 [] c.variant = "arc" -> [d EXCEPT !.cpc[t] = "arc_drop_dead", !.cdead[t] = "recv"]
                 [] OTHER -> [d EXCEPT !.cpc[t] = "recv_park"]

\* thread::park(), lines 190 and 226, 243, 260: returns with the token
ParkWake(t) ==
    /\ ch.cpc[t] \in {"recv_park", "c_park"}
    /\ ch.token[t]
    /\ ch' = [ch EXCEPT !.token[t] = FALSE,
                        !.cpc[t] = IF ch.cpc[t] = "recv_park" THEN "recv_rd_parked" ELSE "c_check"]
    /\ UNCHANGED chanOthers

\* thread::park() may also return spuriously
ParkSpurious(t) ==
    /\ ch.cpc[t] \in {"recv_park", "c_park"}
    /\ ch' = [ch EXCEPT !.cpc[t] = IF ch.cpc[t] = "recv_park" THEN "recv_rd_parked" ELSE "c_check"]
    /\ UNCHANGED chanOthers

\* receive, lines 77, 133, 192: (*message.get()).assume_init_read().  Reading an
\* uninitialized cell is undefined: any value may come out.
RecvRead(t) ==
    /\ ch.cpc[t] \in {"recv_rd", "recv_rd_parked"}
    /\ LET next == IF ch.variant = "arc" THEN "arc_drop" ELSE AfterOp(ch, t)
       IN  IF ch.message # 0
             THEN ch' = [ch EXCEPT !.got[t] = ch.message,
                                   !.taken[ch.round] = @ + 1,
                                   !.cpc[t] = next]
             ELSE \E g \in Msgs \cup {-1} :
                    ch' = [ch EXCEPT !.got[t] = g,
                                     !.ub_recv = TRUE,
                                     !.cpc[t] = next]
    /\ UNCHANGED chanOthers

(***************************************************************************)
(* Free threads: every call the types allow, in any order.                 *)
(***************************************************************************)
Free(t) == ch.role[t] = "free" /\ ch.cpc[t] = "idle"

ClientSend(t) ==
    /\ Free(t)
    /\ MaySend(ch, t)
    /\ \E m \in Msgs : ch' = SendCall(ch, t, m)
    /\ UNCHANGED chanOthers

ClientIsReady(t) ==
    /\ Free(t)
    /\ MayReceive(ch, t)
    /\ ch' = [ch EXCEPT !.isr_last = <<IsReadyLoad(ch), ch.sdone[ch.round], Consumed(ch)>>]
    /\ UNCHANGED chanOthers

ClientReceive(t) ==
    /\ Free(t)
    /\ MayReceive(ch, t)
    /\ ch' = RecvCall(ch, t)
    /\ UNCHANGED chanOthers

\* SenderWithArc, ReceiverWithArc: Send (the closures of lines 238, 255 move one)
MoveSender(t, u) ==
    /\ Free(t)
    /\ ch.variant # "panic"
    /\ ch.sender = t
    /\ t # u
    /\ ch.cdead[u] = "-"
    /\ ch' = [ch EXCEPT !.sender = u]
    /\ UNCHANGED chanOthers

\* ReceiverWithBorrows is not Send (line 180): only the ReceiverWithArc moves
MoveReceiver(t, u) ==
    /\ Free(t)
    /\ ch.variant = "arc"
    /\ ch.receiver = t
    /\ t # u
    /\ ch.cdead[u] = "-"
    /\ ch' = [ch EXCEPT !.receiver = u]
    /\ UNCHANGED chanOthers

\* a Sender or a Receiver goes out of scope unused
DropSender(t) ==
    /\ Free(t)
    /\ ch.variant # "panic"
    /\ ch.sender = t
    /\ ch' = [ch EXCEPT !.sender = 0,
                        !.cpc[t] = IF ch.variant = "arc" THEN "arc_drop" ELSE @]
    /\ UNCHANGED chanOthers

DropReceiver(t) ==
    /\ Free(t)
    /\ ch.variant # "panic"
    /\ ch.receiver = t
    /\ ch' = [ch EXCEPT !.receiver = 0,
                        !.cpc[t] = IF ch.variant = "arc" THEN "arc_drop" ELSE @]
    /\ UNCHANGED chanOthers

\* No borrow of the channel is left: its owner may use it by &mut or drop it.
Unborrowed(c) == c.alive /\ Quiescent(c) /\ c.sender = 0 /\ c.receiver = 0

\* split, lines 157-160: *self = Self::new() drops the old channel, then the
\* Sender (with thread::current()) and the Receiver are made on the owner's thread
Split ==
    /\ ch.variant = "borrow"
    /\ Unborrowed(ch)
    /\ ch.round < MaxRounds
    /\ ch' = [DropMessage(ch) EXCEPT !.ready = FALSE,
                                     !.message = 0,
                                     !.round = @ + 1,
                                     !.sender = 1,
                                     !.receiver = 1,
                                     !.recv_thread = 1]
    /\ UNCHANGED chanOthers

\* Drop for OneShotChannelWithPanic (81-87) and OneShotChannelWithBorrows
\* (195-201), when the channel goes out of scope
DropChannel ==
    /\ ch.variant # "arc"
    /\ Unborrowed(ch)
    /\ ch' = [DropMessage(ch) EXCEPT !.alive = FALSE]
    /\ UNCHANGED chanOthers

ChanOps ==
    \/ \E t \in ChanThreads : SendWrite(t)
    \/ \E t \in ChanThreads : SendReady(t)
    \/ \E t \in ChanThreads : SendUnpark(t)
    \/ \E t \in ChanThreads : ArcDrop(t)
    \/ \E t \in ChanThreads : ParkWake(t)
    \/ \E t \in ChanThreads : ParkSpurious(t)
    \/ \E t \in ChanThreads : RecvRead(t)

ChanNext ==
    \/ ChanOps
    \/ \E t \in ChanThreads : ClientSend(t)
    \/ \E t \in ChanThreads : ClientIsReady(t)
    \/ \E t \in ChanThreads : ClientReceive(t)
    \/ \E t, u \in ChanThreads : MoveSender(t, u)
    \/ \E t, u \in ChanThreads : MoveReceiver(t, u)
    \/ \E t \in ChanThreads : DropSender(t)
    \/ \E t \in ChanThreads : DropReceiver(t)
    \/ Split
    \/ DropChannel

ChanInit == \E v \in Variants : ch = NewChannel(v, [t \in ChanThreads |-> "free"])

InitChan == ChanInit /\ ArcIdle /\ SpinIdle

SpecChan == InitChan /\ [][ChanNext]_vars

(***************************************************************************)
(* The tests one_shot_channel_with_{panic,arc,borrow}_works (217-264):     *)
(* thread 2, spawned, runs   send(m); t.unpark()                           *)
(* thread 1 runs             while !is_ready() { park() }; receive()       *)
(***************************************************************************)
Consumer == 1
Producer == 2

\* lines 222, 239, 256: send("hello world!")
ScriptSend(t) ==
    /\ ch.role[t] \in {"producer", "sender"}
    /\ ch.cpc[t] = "p_send"
    /\ ch' = SendCall(ch, t, ch.cmsg[t])
    /\ UNCHANGED chanOthers

\* lines 223, 240, 257: t.unpark()
ScriptUnpark(t) ==
    /\ ch.role[t] = "producer"
    /\ ch.cpc[t] = "p_unpark"
    /\ ch' = [ch EXCEPT !.token[Consumer] = Unparked(@), !.cpc[t] = "p_done"]
    /\ UNCHANGED chanOthers

\* lines 225, 242, 259: while !is_ready()
LoopCheck(t) ==
    /\ ch.role[t] = "consumer"
    /\ ch.cpc[t] = "c_check"
    /\ ch' = [ch EXCEPT !.isr_last = <<IsReadyLoad(ch), ch.sdone[ch.round], Consumed(ch)>>,
                        !.cpc[t] = IF IsReadyLoad(ch) THEN "c_recv" ELSE "c_park"]
    /\ UNCHANGED chanOthers

\* lines 229, 245, 262: receive()
ScriptReceive(t) ==
    /\ ch.role[t] = "consumer"
    /\ ch.cpc[t] = "c_recv"
    /\ ch' = RecvCall(ch, t)
    /\ UNCHANGED chanOthers

E2ENext ==
    \/ \E t \in ChanThreads : SendWrite(t)
    \/ \E t \in ChanThreads : SendReady(t)
    \/ \E t \in ChanThreads : SendUnpark(t)
    \/ \E t \in ChanThreads : ArcDrop(t)
    \/ \E t \in ChanThreads : ParkWake(t)
    \/ \E t \in ChanThreads : ParkSpurious(t)
    \/ \E t \in ChanThreads : RecvRead(t)
    \/ \E t \in ChanThreads : ScriptSend(t)
    \/ \E t \in ChanThreads : ScriptUnpark(t)
    \/ \E t \in ChanThreads : LoopCheck(t)
    \/ \E t \in ChanThreads : ScriptReceive(t)

\* The state of a test when the producer has been spawned: the channel made
\* (and split, line 253), the Sender moved into the producer's closure.
E2EInit ==
    \E v \in Variants, m \in Msgs :
        ch = [NewChannel(v, [t \in ChanThreads |->
                                CASE t = Consumer -> "consumer"
                                  [] t = Producer -> "producer"
                                  [] OTHER -> "free"])
                EXCEPT !.round = 1,
                       !.sender = IF v = "panic" THEN 0 ELSE Producer,
                       !.receiver = IF v = "panic" THEN 0 ELSE Consumer,
                       !.recv_thread = IF v = "borrow" THEN Consumer ELSE 0,
                       !.cpc[Consumer] = "c_check",
                       !.cpc[Producer] = "p_send",
                       !.cmsg[Producer] = m]

InitE2E == E2EInit /\ ArcIdle /\ SpinIdle

\* A thread's own steps; a spurious return of park() is not something the
\* scheduler owes.
ThreadStep(t) ==
    \/ SendWrite(t)
    \/ SendReady(t)
    \/ SendUnpark(t)
    \/ ArcDrop(t)
    \/ ParkWake(t)
    \/ RecvRead(t)
    \/ ScriptSend(t)
    \/ ScriptUnpark(t)
    \/ LoopCheck(t)
    \/ ScriptReceive(t)

SpecE2E == InitE2E /\ [][E2ENext]_vars /\ \A t \in ChanThreads : WF_vars(ThreadStep(t))

(***************************************************************************)
(* The test one_shot_channel_with_borrow_block_works (267-276):            *)
(* thread 2, spawned, runs   send(m)                                       *)
(* thread 1 runs             receive()                                     *)
(* The consumer's thread may hold a park token from before the test.       *)
(***************************************************************************)
BlockNext ==
    \/ \E t \in ChanThreads : SendWrite(t)
    \/ \E t \in ChanThreads : SendReady(t)
    \/ \E t \in ChanThreads : SendUnpark(t)
    \/ \E t \in ChanThreads : ParkWake(t)
    \/ \E t \in ChanThreads : ParkSpurious(t)
    \/ \E t \in ChanThreads : RecvRead(t)
    \/ \E t \in ChanThreads : ScriptSend(t)
    \/ \E t \in ChanThreads : ScriptReceive(t)

\* lines 268-271: the channel made and split, the Sender moved into the closure
BlockInit ==
    \E m \in Msgs, tok \in BOOLEAN :
        ch = [NewChannel("borrow", [t \in ChanThreads |->
                                CASE t = Consumer -> "consumer"
                                  [] t = Producer -> "sender"
                                  [] OTHER -> "free"])
                EXCEPT !.round = 1,
                       !.sender = Producer,
                       !.receiver = Consumer,
                       !.recv_thread = Consumer,
                       !.token[Consumer] = tok,
                       !.cpc[Consumer] = "c_recv",
                       !.cpc[Producer] = "p_send",
                       !.cmsg[Producer] = m]

InitBlock == BlockInit /\ ArcIdle /\ SpinIdle

SpecBlock == InitBlock /\ [][BlockNext]_vars /\ \A t \in ChanThreads : WF_vars(ThreadStep(t))

(***************************************************************************)
(* One OneShotChannelWithBorrows used for several rounds of split, send    *)
(* and receive, on a platform whose park() never returns spuriously.       *)
(***************************************************************************)
RoundsNext ==
    \/ \E t \in ChanThreads : SendWrite(t)
    \/ \E t \in ChanThreads : SendReady(t)
    \/ \E t \in ChanThreads : SendUnpark(t)
    \/ \E t \in ChanThreads : ParkWake(t)
    \/ \E t \in ChanThreads : RecvRead(t)
    \/ \E t \in ChanThreads : ClientSend(t)
    \/ \E t \in ChanThreads : ClientIsReady(t)
    \/ \E t \in ChanThreads : ClientReceive(t)
    \/ \E t, u \in ChanThreads : MoveSender(t, u)
    \/ \E t \in ChanThreads : DropSender(t)
    \/ \E t \in ChanThreads : DropReceiver(t)
    \/ Split
    \/ DropChannel

\* OneShotChannelWithBorrows::new, lines 153-155
InitRounds ==
    /\ ch = NewChannel("borrow", [t \in ChanThreads |-> "free"])
    /\ ArcIdle
    /\ SpinIdle

SpecRounds == InitRounds /\ [][RoundsNext]_vars

(***************************************************************************)
(* Channel, lines 11-39: a VecDeque behind a Mutex, with a Condvar.        *)
(* ch.mutex is the thread holding the MutexGuard (0: none), ch.waiters the *)
(* threads blocked in Condvar::wait, ch.pushed and ch.popped what has been *)
(* pushed and popped, in that order.  Messages are numbered by call.       *)
(***************************************************************************)
\* Channel::new, lines 17-22
NewQueue ==
    [variant |-> "queue",
     queue |-> <<>>,
     mutex |-> 0,
     waiters |-> {},
     cpc |-> [t \in ChanThreads |-> "idle"],
     cmsg |-> [t \in ChanThreads |-> 0],
     got |-> [t \in ChanThreads |-> 0],
     pushed |-> <<>>,
     popped |-> <<>>,
     nsend |-> 0,
     nrecv |-> 0,
     spurious |-> 0,
     notified |-> 0]

\* a thread calls send(message), line 24
QueueSend(t) ==
    /\ ch.cpc[t] = "idle"
    /\ ch.nsend < NMsgs
    /\ ch' = [ch EXCEPT !.cpc[t] = "s_lock", !.nsend = @ + 1, !.cmsg[t] = ch.nsend + 1]
    /\ UNCHANGED chanOthers

\* a thread calls receive(), line 29
QueueReceive(t) ==
    /\ ch.cpc[t] = "idle"
    /\ ch.nrecv < NMsgs
    /\ ch' = [ch EXCEPT !.cpc[t] = "r_lock", !.nrecv = @ + 1, !.got[t] = 0]
    /\ UNCHANGED chanOthers

\* Mutex::lock, lines 25 and 30, and the re-lock at the end of Condvar::wait
\* (line 35): blocks while another thread holds the guard
QueueLock(t) ==
    /\ ch.cpc[t] \in {"s_lock", "r_lock", "r_relock"}
    /\ ch.mutex = 0
    /\ ch' = [ch EXCEPT !.mutex = t,
                        !.cpc[t] = IF ch.cpc[t] = "s_lock" THEN "s_push" ELSE "r_check"]
    /\ UNCHANGED chanOthers

\* send, line 25: push_back(message)
QueuePush(t) ==
    /\ ch.cpc[t] = "s_push"
    /\ ch' = [ch EXCEPT !.queue = Append(@, ch.cmsg[t]),
                        !.pushed = Append(@, ch.cmsg[t]),
                        !.cpc[t] = "s_unlock"]
    /\ UNCHANGED chanOthers

\* the MutexGuard is dropped: end of line 25, and the return at line 33
QueueUnlock(t) ==
    /\ ch.cpc[t] \in {"s_unlock", "r_unlock"}
    /\ ch' = [ch EXCEPT !.mutex = 0,
                        !.cpc[t] = IF ch.cpc[t] = "s_unlock" THEN "s_notify" ELSE "idle"]
    /\ UNCHANGED chanOthers

\* a notify_one that wakes nobody
NotifyLost(ws) == {}

\* Condvar::notify_one: the threads it may wake, one of those waiting
NotifyWakes(ws) == ws

\* send, line 26: item_ready.notify_one()
QueueNotify(t) ==
    /\ ch.cpc[t] = "s_notify"
    /\ IF NotifyWakes(ch.waiters) = {}
         THEN ch' = [ch EXCEPT !.cpc[t] = "idle", !.cmsg[t] = 0]
         ELSE \E w \in NotifyWakes(ch.waiters) :
                ch' = [ch EXCEPT !.cpc[t] = "idle", !.cmsg[t] = 0,
                                 !.waiters = @ \ {w},
                                 !.cpc[w] = "r_relock",
                                 !.notified = 1]
    /\ UNCHANGED chanOthers

\* a pop that takes the newest message
PopBack(q) == q[Len(q)]

\* VecDeque::pop_front, line 32: the oldest message
PopFront(q) == Head(q)

\* receive, lines 31-36: one turn of the loop, under the guard; Condvar::wait
\* releases the mutex and blocks in one step
QueueCheck(t) ==
    /\ ch.cpc[t] = "r_check"
    /\ IF ch.queue # <<>>
         THEN ch' = [ch EXCEPT !.got[t] = PopFront(ch.queue),
                               !.popped = Append(@, PopFront(ch.queue)),
                               !.queue = Tail(@),
                               !.cpc[t] = "r_unlock"]
         ELSE ch' = [ch EXCEPT !.mutex = 0,
                               !.waiters = @ \cup {t},
                               !.cpc[t] = "r_wait"]
    /\ UNCHANGED chanOthers

\* Condvar::wait, line 35, returns without a notify
QueueSpurious(t) ==
    /\ ch.cpc[t] = "r_wait"
    /\ ch.spurious < MaxSpurious
    /\ ch' = [ch EXCEPT !.waiters = @ \ {t},
                        !.cpc[t] = "r_relock",
                        !.spurious = @ + 1]
    /\ UNCHANGED chanOthers

\* what thread t does once it is inside send or receive
QueueStep(t) ==
    \/ QueueLock(t)
    \/ QueuePush(t)
    \/ QueueUnlock(t)
    \/ QueueNotify(t)
    \/ QueueCheck(t)

QueueNext ==
    \/ \E t \in ChanThreads : QueueSend(t)
    \/ \E t \in ChanThreads : QueueReceive(t)
    \/ \E t \in ChanThreads : QueueLock(t)
    \/ \E t \in ChanThreads : QueuePush(t)
    \/ \E t \in ChanThreads : QueueUnlock(t)
    \/ \E t \in ChanThreads : QueueNotify(t)
    \/ \E t \in ChanThreads : QueueCheck(t)
    \/ \E t \in ChanThreads : QueueSpurious(t)

QueueInit == ch = NewQueue

InitQueue == QueueInit /\ ArcIdle /\ SpinIdle

SpecQueue ==
    InitQueue /\ [][QueueNext]_vars /\ \A t \in ChanThreads : WF_vars(QueueStep(t))

(***************************************************************************)
(* Properties of the Arc                                                   *)
(***************************************************************************)
ArcQuiet == \A t \in ArcThreads : apc[t] = "idle"

\* C1: whatever the interleaving of clones and drops, the payload is
\* finalized at most once, only by the drop that took the counter from 1 to
\* 0, at which point no handle exists any more, and it has been finalized as
\* soon as every handle is dropped and every drop has returned.
C1_FinalizedOnceByLastDrop ==
    /\ num_drops <= 1
    /\ allocated <=> (num_drops = 0)
    /\ ~allocated => LiveHandles = 0
    /\ \A t \in ArcThreads : (apc[t] = "drop" /\ aold[t] = 1) => LiveHandles = 0
    /\ (LiveHandles = 0 /\ ArcQuiet /\ ~aborted) => num_drops = 1
    /\ ~uaf

\* Several handles existed, a get_mut was refused, and the payload is finalized.
C1_Witness == num_drops = 1 /\ gm_last[1] = "None" /\ gm_last[2] >= 2

\* C2: get_mut returns Some exactly when one handle exists; while a thread
\* holds the mutable view no other handle exists (none that could read the
\* payload, none that could give a second view).
C2_GetMutExclusive ==
    /\ gm_last[1] = "Some" => gm_last[2] = 1
    /\ gm_last[1] = "None" => gm_last[2] # 1
    /\ \A t \in ArcThreads :
          apc[t] = "view" =>
            /\ LiveHandles = 1
            /\ handles[t] = 1
            /\ \A u \in ArcThreads \ {t} : apc[u] \notin {"view", "clone"}

\* A thread other than the creating one holds the view, after a refused get_mut
\* or a clone elsewhere (the counter has been above 1).
C2_Witness == \E t \in ArcThreads \ {1} : apc[t] = "view" /\ gm_last = <<"Some", 1>>

(***************************************************************************)
(* Properties of the SpinLock                                              *)
(***************************************************************************)
\* C3: when every thread has completed its SpinRounds rounds of lock, read,
\* write back plus one, drop the guard, the counter is exactly
\* NSpinThreads * SpinRounds.
C3_NoLostUpdate ==
    (\A t \in SpinThreads : spc[t] = "done") => value = NSpinThreads * SpinRounds

C3_Witness == \A t \in SpinThreads : spc[t] = "done" /\ rounds[t] = SpinRounds

\* C4: at most one guard exists, and the flag is set while one does.
C4_MutualExclusion ==
    /\ Cardinality(Guards) <= 1
    /\ Guards # {} => locked

\* One thread writes under its guard while another spins in lock().
C4_Witness ==
    \E t, u \in SpinThreads :
        /\ t # u
        /\ spc[t] = "write"
        /\ spc[u] = "lock"
        /\ rounds[u] >= 1
        /\ locked

\* C5: the flag is set only while a guard exists: a guard that left its
\* scope, by the end of the round or by a panic, has cleared it.
C5_ReleasedOnExit == locked => Guards # {}

\* A thread panicked under its guard, and a later lock() succeeded.
C5_Witness ==
    /\ acq_after_panic
    /\ \E t \in SpinThreads : spc[t] = "panicked"
    /\ \E t \in SpinThreads : spc[t] = "done"

(***************************************************************************)
(* Properties of the one-shot channels                                     *)
(***************************************************************************)
CanCallIsReady(c) == \E t \in ChanThreads : c.cpc[t] = "idle" /\ MayReceive(c, t)

\* C6: is_ready() returns true exactly when a send has completed (ready was
\* stored) and no receive has taken the message: for every call made, and in
\* every state in which a call can be made.
C6_IsReadyIff ==
    /\ ch.isr_last[1] <=> (ch.isr_last[2] /\ ~ch.isr_last[3])
    /\ CanCallIsReady(ch) => (IsReadyLoad(ch) <=> (ch.sdone[ch.round] /\ ~Consumed(ch)))

\* is_ready() returned false after a receive had taken the message.
C6_Witness == ch.isr_last = <<FALSE, TRUE, TRUE>> /\ ch.taken[1] = 1

SendPanicked(c) == {t \in ChanThreads : c.cdead[t] \in {"send", "send_late"}}
SendClaimed(c) == {t \in ChanThreads : c.cpc[t] \in {"send_w", "send_r"}}

\* C7: on the OneShotChannelWithPanic at most one send ever gets past the
\* swap of in_use and writes the cell, in_use stays set from then on, and a
\* send panics only when another one had claimed the channel.
C7_SingleSend ==
    ch.variant = "panic" =>
        /\ ch.written[1] + Cardinality({t \in ChanThreads : ch.cpc[t] = "send_w"}) <= 1
        /\ Cardinality(SendClaimed(ch)) + (IF ch.sdone[1] THEN 1 ELSE 0) <= 1
        /\ (ch.written[1] >= 1 \/ SendClaimed(ch) # {} \/ SendPanicked(ch) # {}) => ch.in_use
        /\ \A t \in SendPanicked(ch) :
              ch.written[1] = 1 \/ SendClaimed(ch) \ {t} # {}

\* A send panicked after the one message had been sent and received.
C7_Witness ==
    /\ ch.variant = "panic"
    /\ \E t \in ChanThreads : ch.cdead[t] = "send_late"
    /\ ch.written[1] = 1
    /\ ch.taken[1] = 1

Reading(c) == {t \in ChanThreads : c.cpc[t] = "recv_rd"}

\* C8: on the OneShotChannelWithPanic and the OneShotChannelWithArc a receive
\* reads the cell only after its swap found ready set, so only a written
\* cell is read and at most one receive ever reads it; the others panic.
C8_ReceiveChecked ==
    ch.variant \in {"panic", "arc"} =>
        /\ ch.taken[1] + Cardinality(Reading(ch)) <= 1
        /\ ~ch.ub_recv
        /\ Reading(ch) # {} => (ch.sdone[1] /\ ch.message # 0 /\ ~ch.ready)
        /\ \A t \in ChanThreads :
              ch.cdead[t] = "recv" => ch.cpc[t] \in {"dead", "arc_drop_dead"}

\* One receive returned the message and another one panicked.
C8_Witness ==
    /\ ch.variant = "panic"
    /\ \E t \in ChanThreads : ch.cdead[t] = "recv"
    /\ \E t \in ChanThreads : ch.got[t] \in Msgs /\ ch.cdead[t] = "-"
    /\ ch.taken[1] = 1

\* The rounds whose cell has been destroyed: by a later split, or with the channel.
Closed(c) == {r \in Rounds : r < c.round \/ (r = c.round /\ ~c.alive)}

\* C10: a cell destroyed after a send completed and before a receive took the
\* message has finalized the message exactly once; a cell destroyed without a
\* completed send has finalized nothing; an uninitialized cell is never finalized.
C10_FinalizedOnDrop ==
    /\ \A r \in Closed(ch) :
          /\ (ch.sdone[r] /\ ch.taken[r] = 0) => ch.final[r] = 1
          /\ ~ch.sdone[r] => ch.final[r] = 0
    /\ ~ch.ub_drop

\* An unread message finalized by split, the next one by the drop of the channel.
C10_Witness ==
    /\ ch.variant = "borrow"
    /\ ~ch.alive
    /\ ch.round = 2
    /\ ch.sdone[1] /\ ch.taken[1] = 0 /\ ch.final[1] = 1
    /\ ch.sdone[2] /\ ch.taken[2] = 0 /\ ch.final[2] = 1

E2EDone ==
    /\ ch.cpc[Consumer] = "c_done"
    /\ ch.got[Consumer] = ch.cmsg[Producer]
    /\ ch.got[Consumer] \in Msgs
    /\ ch.taken[1] = 1
    /\ ch.final[1] = 0

\* C9: in the tests the consumer leaves its park loop, its receive() panics
\* nowhere and returns the message sent, once.
C9_Handoff ==
    /\ <>[]E2EDone
    /\ [](ch.cdead = [t \in ChanThreads |-> "-"] /\ ~ch.ub_recv)

\* The consumer had parked, was woken by the producer's unpark and received.
C9_Witness == E2EDone /\ ch.variant = "borrow" /\ ch.cpc[Producer] = "p_done" /\ ~ch.token[Consumer] /\ ch.isr_last = <<TRUE, TRUE, FALSE>>

\* C11: a Borrow-Scoped receive() returns, and reads the cell, only after
\* the paired send() has written the message and stored ready: a receive
\* that has come back from park() is about to read only if ready was stored.
C11_NoPrematureReturn ==
    ch.variant = "borrow" =>
        /\ \A t \in ChanThreads : ch.cpc[t] = "recv_rd_parked" => ch.sdone[ch.round]
        /\ ~ch.ub_recv

\* C15: every message written is moved out by one receive or finalized with
\* the cell, never both; once a receive has returned it, ready is false.
C15_ConsumedOnce ==
    /\ \A r \in Rounds : ch.taken[r] + ch.final[r] <= ch.written[r]
    /\ (Quiescent(ch) /\ ch.alive /\ ch.taken[ch.round] >= 1) => ~ch.ready

\* C12: in the blocking test the receive() of the consumer ends, whatever the
\* interleaving of its swap and park with the sender's store and unpark, and
\* what it returns is the message sent.
C12_ReceivesSent ==
    ch.cpc[Consumer] = "c_done" =>
        /\ ch.got[Consumer] = ch.cmsg[Producer]
        /\ ch.taken[1] = 1
        /\ ~ch.ub_recv

\* The part of C12 that the code keeps: the receiver never stays parked.
BlockReturns == <>[](ch.cpc[Consumer] = "c_done" /\ ch.cpc[Producer] = "p_done")

\* The clones that have done their fetch_add and not yet returned or aborted.
ClonesInFlight == Cardinality({t \in ArcThreads : apc[t] = "clone"})

\* C13: with fewer threads than half the counter's range, and handles leaked
\* at will, no fetch_add of clone ever finds the counter at its maximum (it
\* never wraps to 0), and no clone that found it above usize::MAX / 2 returns
\* a handle: short of an abort, the counter less the clones in flight is at
\* most usize::MAX / 2 + 1.
C13_NoWrapAround ==
    /\ \A t \in ArcThreads : apc[t] = "clone" => aold[t] < UsizeMax
    /\ ref_count <= UsizeMax
    /\ ~aborted => ref_count - ClonesInFlight <= UsizeMax \div 2 + 1
    /\ (allocated /\ ~uaf) => ref_count >= LiveHandles

\* The process aborted, with leaked handles and the counter above the threshold.
C13_Witness == aborted /\ leaked /\ ref_count > UsizeMax \div 2 + 1 /\ LiveHandles <= 2

\* C14: the counter is 1 after Arc::new; while a handle exists the counter
\* is at least 1 and the block is allocated; and the block is freed only by
\* the drop whose decrement took the counter from 1 to 0.
C14_CounterInvariant ==
    /\ (ref_count = 1 /\ allocated = TRUE /\ LiveHandles = 1)
    /\ [](LiveHandles >= 1 => (ref_count >= 1 /\ allocated = TRUE /\ uaf = FALSE))
    /\ [][(allocated = TRUE /\ allocated' = FALSE) =>
             \E t \in ArcThreads : apc[t] = "drop" /\ aold[t] = 1 /\ apc'[t] = "idle"]_vars
    /\ [][\A t \in ArcThreads :
             (apc[t] = "idle" /\ apc'[t] = "drop" /\ aold'[t] = 1) => ref_count' = 0]_vars

\* The last of several handles is being dropped: the counter went from 1 to 0.
C14_Witness ==
    /\ \E t \in ArcThreads : apc[t] = "drop" /\ aold[t] = 1
    /\ ref_count = 0
    /\ allocated
    /\ gm_last[2] >= 2

\* C16: after split() the cell is fresh (ready false, nothing in it); a
\* message left unread by an earlier round was finalized exactly once by the
\* reset; and every round delivers its own message: a receive returns what
\* was written in its round, never the cell as split left it.
C16_SplitRounds ==
    /\ (ch.sender # 0 /\ ch.receiver # 0) => (~ch.ready /\ ch.message = 0)
    /\ \A r \in Rounds :
          (r < ch.round /\ ch.sdone[r] /\ ch.taken[r] = 0) => ch.final[r] = 1
    /\ \A r \in Rounds : ch.taken[r] <= ch.written[r]
    /\ ~ch.ub_recv

\* What split itself does, which the code keeps.
SplitResets ==
    /\ (ch.sender # 0 /\ ch.receiver # 0) => (~ch.ready /\ ch.message = 0)
    /\ \A r \in Rounds :
          (r < ch.round /\ ch.sdone[r] /\ ch.taken[r] = 0) => ch.final[r] = 1

Contiguous(s, x) ==
    \A i, j \in DOMAIN s :
        (i < j /\ s[i] = x /\ s[j] = x) => \A k \in i..j : s[k] = x

IsOneOrTwo(x) == x \in {1, 2}

SectionsContiguous ==
    /\ \A t \in SpinThreads : Contiguous(value, t)
    /\ \A t \in SpinThreads :
          spc[t] \in {"done", "asserted", "exit"} =>
              Len(SelectSeq(value, LAMBDA x : x = t)) = Pushes(t)
    /\ SelectSeq(value, IsOneOrTwo) # <<2, 1, 2>>
    /\ (\A t \in SpinThreads : spc[t] = "asserted") =>
          SelectSeq(value, IsOneOrTwo) \in {<<1, 2, 2>>, <<2, 2, 1>>}

\* C17: what a thread does to the list while it holds one guard is contiguous
\* in the list, never interleaved with another thread's pushes, and complete
\* when the guard is gone; the pushes of the thread pushing 1 and of the
\* thread pushing 2 twice end as [1, 2, 2] or [2, 2, 1], never [2, 1, 2];
\* and the list changes only while a guard is alive.
C17_SectionsAtomic ==
    /\ []SectionsContiguous
    /\ [][value' # value => \E t \in SpinThreads : HoldsGuard(t) /\ spc[t] = "write"]_vars

C17_Witness ==
    /\ \A t \in SpinThreads : spc[t] = "asserted"
    /\ SelectSeq(value, IsOneOrTwo) = <<2, 2, 1>>
    /\ Len(value) = 2 * NSpinThreads - 1

\* C18: lock() cannot fail, it only spins; with finitely many rounds per
\* thread and every thread scheduled again and again, every lock() call
\* returns and in the end every thread has terminated.
C18_Progress ==
    /\ \A t \in SpinThreads : (spc[t] = "lock") ~> (spc[t] = "read")
    /\ <>[](\A t \in SpinThreads : spc[t] \in {"done", "panicked"})

C18_Witness ==
    /\ \A t \in SpinThreads : spc[t] = "done" /\ rounds[t] = SpinRounds
    /\ ~locked
    /\ value = NSpinThreads * SpinRounds

\* The threads whose send or receive has just panicked in this step.
PanicsNow(t) == ch.cdead[t] = "-" /\ ch'.cdead[t] # "-"

\* C19: on the OneShotChannelWithPanic a send or receive that panics changes
\* nothing of the channel (cell, ready, in_use, what has been written or
\* taken); a receive panics only with ready false and leaves it false; and
\* whatever panics happened, a receive that returns delivers the message that
\* was written.
C19_PanicLeavesChannel ==
    /\ [][\A t \in ChanThreads :
            (ch.variant = "panic" /\ PanicsNow(t)) =>
                /\ ch' = [ch EXCEPT !.cpc[t] = "dead", !.cdead[t] = ch'.cdead[t]]
                /\ ch'.cdead[t] = "recv" => (~ch.ready /\ ~ch'.ready)
                /\ ch'.cdead[t] \in {"send", "send_late"} => ch.in_use]_vars
    /\ [](ch.variant = "panic" =>
            \A t \in ChanThreads :
                ch.got[t] # 0 => (ch.got[t] = ch.message /\ ch.sdone[1] /\ ~ch.ub_recv))

\* A receive panicked, a send panicked, and the message was still received.
C19_Witness ==
    /\ ch.variant = "panic"
    /\ \E t \in ChanThreads : ch.cdead[t] = "recv"
    /\ \E t \in ChanThreads : ch.cdead[t] = "send"
    /\ \E t \in ChanThreads : ch.got[t] \in Msgs /\ ch.got[t] = ch.message

IsPrefix(s, u) == Len(s) <= Len(u) /\ \A i \in 1..Len(s) : s[i] = u[i]

InReceive(t) == ch.cpc[t] \in {"r_lock", "r_check", "r_wait", "r_relock", "r_unlock"}

\* C20: what the receives have returned is a beginning of what the sends have
\* pushed, in push order (FIFO, nothing returned twice, nothing returned that
\* was not pushed), the queue holding the rest; a receive returns only by
\* popping the head of a non-empty queue; and once the messages pushed are as
\* many as the receives called, every receive returns.
C20_QueueChannel ==
    /\ [](/\ IsPrefix(ch.popped, ch.pushed)
          /\ ch.pushed = ch.popped \o ch.queue
          /\ \A i, j \in DOMAIN ch.pushed : ch.pushed[i] = ch.pushed[j] => i = j
          /\ \A t \in ChanThreads : ch.cpc[t] = "r_unlock" => ch.got[t] = ch.popped[Len(ch.popped)])
    /\ [][ch.popped # ch'.popped =>
            (ch.queue # <<>> /\ ch'.popped = Append(ch.popped, Head(ch.queue)))]_vars
    /\ (<>[](Len(ch.pushed) >= ch.nrecv)) => <>[](\A t \in ChanThreads : ~InReceive(t))

\* Two messages went through in order, and a blocked receive was woken by a
\* notify.
C20_Witness ==
    /\ ch.variant = "queue"
    /\ ch.popped = <<1, 2>>
    /\ ch.notified = 1
    /\ \A t \in ChanThreads : ch.cpc[t] = "idle"

====
